---- MODULE Spec2Model ----
(***************************************************************************)
(* The environment-state synchronization engine of SuiteCloud++            *)
(* (src/unnamed/part_001): the environment catalog, the per-project state  *)
(* cache, the status bar indicator and the asynchronous handlers that      *)
(* keep them in step with the project.json files on disk.                  *)
(*                                                                         *)
(* Text is a sequence of one-character strings, so that trimming,          *)
(* splitting, lower-casing and matching are computed and not assumed.      *)
(* Every `await` of the source is a suspension point: a task in flight is  *)
(* a record in one of the bags below, and the step that resumes it is an   *)
(* action.                                                                 *)
(***************************************************************************)
EXTENDS Integers, Sequences, FiniteSets, Bags, TLC

\* ------------------------------------------------------------------ bounds
\* External edits of project.json files made outside the extension.
MaxEdits == 1
\* Invocations of the selectEnvironment command.
MaxSelects == 1
\* Changes of the active text editor.
MaxFocus == 1
\* Tasks in flight below which the user and other writers still act.
MaxInFlight == 3
\* Changes of the active editor seen by the multi-project module.
MaxProjectFocus == 2

\* -------------------------------------------------------------------- text
ESC == "ESC"
NL == "\n"

Range(s) == {s[i] : i \in 1..Len(s)}

\* The characters /[\u0000-\u001F\u007F-\u009F]/ removes.
IsControl(c) == c \in {ESC, NL, "\r", "\t"}

\* The characters String.prototype.trim removes at both ends.
IsSpace(c) == c \in {" ", NL, "\r", "\t"}

RECURSIVE TrimLeft(_)
TrimLeft(s) ==
  IF s # <<>> /\ IsSpace(Head(s)) THEN TrimLeft(Tail(s)) ELSE s

RECURSIVE TrimRight(_)
TrimRight(s) ==
  IF s # <<>> /\ IsSpace(s[Len(s)]) THEN TrimRight(SubSeq(s, 1, Len(s) - 1)) ELSE s

Trim(s) == TrimRight(TrimLeft(s))

StartsWith(s, p) == Len(p) <= Len(s) /\ SubSeq(s, 1, Len(p)) = p

\* The least index at which p occurs in s, 0 when it does not.
IndexOf(s, p) ==
  LET hits == {i \in 1..(Len(s) - Len(p) + 1) : SubSeq(s, i, i + Len(p) - 1) = p}
  IN IF hits = {} THEN 0 ELSE CHOOSE i \in hits : \A j \in hits : i <= j

Includes(s, p) == p = <<>> \/ IndexOf(s, p) > 0

\* s.split(p), p a non-empty separator: never an empty array.
RECURSIVE Split(_, _)
Split(s, p) ==
  LET i == IndexOf(s, p)
  IN IF i = 0 THEN <<s>>
     ELSE <<SubSeq(s, 1, i - 1)>> \o Split(SubSeq(s, i + Len(p), Len(s)), p)

\* s.replace(p, ""), p a string: the first occurrence only.
ReplaceFirst(s, p) ==
  LET i == IndexOf(s, p)
  IN IF i = 0 THEN s ELSE SubSeq(s, 1, i - 1) \o SubSeq(s, i + Len(p), Len(s))

StripControl(s) == SelectSeq(s, LAMBDA c : ~IsControl(c))

ToLowerChar(c) ==
  CASE c = "A" -> "a"
    [] c = "B" -> "b"
    [] c = "D" -> "d"
    [] c = "O" -> "o"
    [] c = "P" -> "p"
    [] c = "R" -> "r"
    [] c = "T" -> "t"
    [] c = "S" -> "s"
    [] c = "V" -> "v"
    [] OTHER -> c

ToLowerCase(s) == [i \in 1..Len(s) |-> ToLowerChar(s[i])]

CursorReset == <<"[", "2", "K", "[", "1", "G">>
FieldSep == <<" ", "|", " ">>

\* One line of `manageauth --list`, as the map callback cleans it.
CleanListLine(line) ==
  Split(ReplaceFirst(StripControl(line), CursorReset), FieldSep)[1]

\* stdout.trim().split("\n").map(...): the names the enumeration yields.
ParseEnvList(stdout) ==
  LET lines == Split(Trim(stdout), <<NL>>)
  IN [i \in 1..Len(lines) |-> CleanListLine(lines[i])]

\* ------------------------------------------------------------------ values
\* JavaScript's undefined, in a slot that otherwise holds text.
Undefined == <<"undefined">>
MSG_SHOW_ALL_ENVIRONMENTS == <<"CLEAR FILTER / SHOW ALL">>
Loading == <<"$(sync~spin) Getting NetSuite environments...">>
Production == <<"Production">>
AccountType == "Account Type"
AccountID == "Account ID"

\* !v for a value that is text or undefined.
Falsy(v) == v = Undefined \/ v = <<>>

\* A NetSuiteAuthAccountInfo: the name and the two detail fields the code reads.
Env(name, type, acct) == [name |-> name, type |-> type, acct |-> acct]
NameOnly(name) == Env(name, Undefined, Undefined)
\* An empty slot of a sparse array (an index past the end was assigned).
Hole == Env(<<"<empty slot>">>, Undefined, Undefined)

Names(envs) == [i \in 1..Len(envs) |-> envs[i].name]

Max(a, b) == IF a >= b THEN a ELSE b

\* arr[p] = v on a JavaScript array (p counted from 1): assigning past the end
\* lengthens the array and leaves empty slots between.
ArraySet(arr, p, v) ==
  [i \in 1..Max(Len(arr), p) |->
     IF i = p THEN v ELSE IF i <= Len(arr) THEN arr[i] ELSE Hole]

HasHole(envs) == \E i \in 1..Len(envs) : envs[i] = Hole

\* The last index of envs holding name n, 0 when none does.
LastIndexOfName(envs, n) ==
  LET at == {i \in 1..Len(envs) : envs[i] # Hole /\ envs[i].name = n}
  IN IF at = {} THEN 0 ELSE CHOOSE i \in at : \A j \in at : j <= i

\* ------------------------------------------------------- the two roots
Roots == {"w1", "w2"}
\* Two more workspace folders: one without a project.json, one with two.
OtherRoots == {"w0", "w3"}
Files == {"F", "G"}
NoFile == "none"
NoEditor == "none"
NoEnv == Undefined

\* vscode.workspace.findFiles(new RelativePattern(root, "project.json")).
ProjectJsonIn(root) ==
  CASE root = "w1" -> {"F"}
    [] root = "w2" -> {"G"}
    [] root = "w0" -> {}
    [] OTHER -> {"H", "K"}

\* A project.json as JSON.parse sees it: ok is whether it parses at all, auth
\* is defaultAuthId, marker is whether suiteCloudPlusPlusLastModified is there
\* and truthy, rest stands for all its other fields.
Content(auth, marker) ==
  [ok |-> TRUE, auth |-> auth, marker |-> marker, rest |-> <<"v">>]
Unparseable == [ok |-> FALSE, auth |-> Undefined, marker |-> FALSE, rest |-> <<>>]
\* The same file with its other fields edited as well.
OtherFieldsEdited(content) == [content EXCEPT !.rest = <<"w">>]

InitDisk == [f \in Files |-> IF f = "F" THEN Content(<<"A", "b">>, FALSE)
                                        ELSE Content(<<"a">>, FALSE)]

\* What an editor or another tool may leave in a project.json: no
\* defaultAuthId, another one, one edited in a file the extension wrote before,
\* text that does not parse.
ExternalContents ==
  { Content(Undefined, FALSE),
    Content(<<"A", "b">>, FALSE),
    Content(<<"a">>, TRUE),
    Unparseable }

\* What `suitecloud account:manageauth --list` may print.
ListAAb == <<"a", " ", "|", " ", "x", NL, "A", "b", NL>>
ListAbA == <<ESC, "[", "2", "K", ESC, "[", "1", "G", "A", "b", NL, "a">>
ListProd == <<"p", "r", "o", "d", NL, "a", NL, "A", "b">>
EnumOutputs == {<<>>, ListAAb, ListAbA, ListProd}

\* What `suitecloud account:manageauth --info <name>` may print.
InfoProduction == <<AccountType, ":", " ", "Production", NL, AccountID, ":", "1">>
InfoNoType == <<"Domain", ":", "h", ":", "x">>
DetailOutputs == {InfoProduction, InfoNoType}
\* Output of `manageauth --info` without any "key: value" line.
InfoBare == <<"x">>
\* A sandbox account.
InfoSandbox == <<AccountType, ":", " ", "S", "B", NL, AccountID, ":", "2">>
\* A test-drive account, which NetSuite reports as of type Production.
InfoTstdrv ==
  <<AccountType, ":", "Production", NL,
    AccountID, ":", " ", "T", "S", "T", "D", "R", "V", "1">>

Failed == <<"<command failed>">>

\* ----------------------------------------------------------------- isProd
\* The loop of isProd reads env.name of every slot up to the first match: it
\* throws a TypeError on an empty slot met before one.
IsProdThrows(authId, envs) ==
  \E i \in 1..Len(envs) :
     /\ envs[i] = Hole
     /\ \A j \in 1..(i - 1) : envs[j].name # authId

\* The account type consulted before the account id.
isProd_TypeFirst(authId, envs) ==
  LET at == {i \in 1..Len(envs) : envs[i].name = authId}
      found == at # {}
      accInfo == envs[CHOOSE i \in at : \A j \in at : i <= j]
  IN IF Falsy(authId) THEN FALSE
     ELSE IF found /\ accInfo.type = Production THEN TRUE
     ELSE Includes(ToLowerCase(authId), <<"p", "r", "o", "d">>)

isProd(authId, envs) ==
  LET at == {i \in 1..Len(envs) : envs[i].name = authId}
      found == at # {}
      accInfo == envs[CHOOSE i \in at : \A j \in at : i <= j]
      acct == IF found /\ ~Falsy(accInfo.acct) THEN accInfo.acct ELSE <<>>
      isTstdrvAcc == StartsWith(ToLowerCase(acct), <<"t", "s", "t", "d", "r", "v">>)
  IN IF Falsy(authId) THEN FALSE
     ELSE IF isTstdrvAcc THEN FALSE
     ELSE IF found /\ accInfo.type = Production THEN TRUE
     ELSE Includes(ToLowerCase(authId), <<"p", "r", "o", "d">>)

\* --------------------------------------------------------- detail parsing
\* One line of `manageauth --info`: a pair <<key, value>> when the line splits
\* at ':' into exactly two parts, <<>> otherwise.
DetailPair(line) ==
  LET parts == Split(ReplaceFirst(StripControl(line), CursorReset), <<":">>)
  IN IF Len(parts) = 2 THEN <<Trim(parts[1]), Trim(parts[2])>> ELSE <<>>

\* envInfo[key] of the record the loop over the lines builds: the value of the
\* last line with that key, Undefined when there is none.
DetailField(lines, key) ==
  LET at == {i \in 1..Len(lines) :
               DetailPair(lines[i]) # <<>> /\ DetailPair(lines[i])[1] = <<key>>}
  IN IF at = {} THEN Undefined
     ELSE DetailPair(lines[CHOOSE i \in at : \A j \in at : j <= i])[2]

ParseEnvInfo(envName, stdout) ==
  LET lines == Split(Trim(stdout), <<NL>>)
  IN Env(envName, DetailField(lines, AccountType), DetailField(lines, AccountID))

\* ------------------------------------------------------- catalog merging
\* oldEnvironmentsByName[n]: the last record of the old catalog named n.
Existing(old, n) == old[LastIndexOfName(old, n)]

\* "No details yet": Object.keys(existing).length === 1 || !existing.type.  A
\* record whose only key is name has no type, so the second test decides.
NoDetailsYet(env) == Falsy(env.type)

\* The catalog loadNetSuiteEnvironments builds from the old one and envList.
MergeEnvironments(old, envList) ==
  [i \in 1..Len(envList) |->
     IF LastIndexOfName(old, envList[i]) = 0 THEN NameOnly(envList[i])
     ELSE Existing(old, envList[i])]

\* Every name queued, known or not.
NeedsDetails_Always(old, n) == TRUE

\* Whether envList[i] goes to envsToGetDetails.
NeedsDetails(old, n) ==
  LastIndexOfName(old, n) = 0 \/ NoDetailsYet(Existing(old, n))

EnvsToGetDetails(old, envList) ==
  SelectSeq(envList, LAMBDA n : NeedsDetails(old, n))

\* envIndicesByName, kept beside each queued name: the index, in the catalog
\* as it is when loadEnvironmentDetails starts, of the last record so named.
IndexedQueue(envs, envList) ==
  [i \in 1..Len(envList) |->
     [name |-> envList[i], idx |-> LastIndexOfName(envs, envList[i])]]

\* ------------------------------------------------------------ the picker
\* The test without the 'i' flag.
RegexTest_CaseSensitive(pattern, name) == Includes(name, pattern)

\* new RegExp(pattern, 'i').test(name), for a pattern that is literal text.
RegexTest(pattern, name) == Includes(ToLowerCase(name), ToLowerCase(pattern))

\* environments.filter(val => regex.test(val.name)): filter skips empty slots.
FilterEnvironments(arr, pattern) ==
  SelectSeq(arr, LAMBDA e : e # Hole /\ RegexTest(pattern, e.name))

\* The entry pushed only beside at least one match.
PushesShowAll_OnlyWithMatches(filtered, arr) ==
  Len(filtered) > 0 /\ Len(filtered) < Len(arr)

\* Whether the synthetic entry is pushed.
PushesShowAll(filtered, arr) == Len(filtered) < Len(arr)

\* The list handed to showQuickPick when the filter is consulted: slice is the
\* copy taken on entry, arr the array passed in, pattern the authIdFilter found
\* (falsy when there is no config file or no filter in it).
PresentedList(slice, arr, pattern) ==
  LET filtered == IF Falsy(pattern) THEN slice ELSE FilterEnvironments(arr, pattern)
  IN Names(filtered) \o
       (IF PushesShowAll(filtered, arr) THEN <<MSG_SHOW_ALL_ENVIRONMENTS>> ELSE <<>>)

\* What suitecloud.config.js may hold for a project: no file, two files, a
\* file without authIdFilter, a filter, a filter that is no regular expression.
NoConfig == <<"<no config>">>
TwoConfigs == <<"<two configs>">>
InvalidRegex == <<"(">>
ConfigResults == {NoConfig, TwoConfigs, <<>>, <<"A">>, <<"B">>, <<"z">>, InvalidRegex}

\* ------------------------------------------------------------------ state
VARIABLES
  environments,                      \* the catalog
  defaultAuthIdsByProjectJson,       \* the state cache, by project.json
  projectJsonFilesByWorkspaceFolder, \* the locator's memo, by root
  statusBarItem,                     \* [text, color, shown]
  disk,                              \* the project.json files
  activeTextEditor,                  \* the root of the focused editor, or none
  subscribed,                        \* activate registered its handlers
  pendingChanges,                    \* change notifications not yet delivered
  listTasks,                         \* loadNetSuiteEnvironments awaiting exec
  detailTasks,                       \* loadEnvironmentDetails awaiting exec
  renderTasks,                       \* updateStatusBarItem awaiting I/O
  changedTasks,                      \* onProjectJsonFileChanged awaiting I/O
  selectTasks,                       \* the command awaiting I/O or the user
  userChoice,                        \* history: the cache entry was set by a pick
  budget,                            \* history: external events so far
  last,                              \* history: the step just taken
  multiProject                       \* multiProject.ts: activeProject.json and its handlers

vars == <<environments, defaultAuthIdsByProjectJson, projectJsonFilesByWorkspaceFolder,
          statusBarItem, disk, activeTextEditor, subscribed, pendingChanges,
          listTasks, detailTasks, renderTasks, changedTasks, selectTasks,
          userChoice, budget, last, multiProject>>

InFlight ==
  BagCardinality(listTasks) + BagCardinality(detailTasks) + BagCardinality(renderTasks)
    + BagCardinality(changedTasks) + BagCardinality(selectTasks)
Calm == InFlight < MaxInFlight

\* showErrorMessage and showInformationMessage.
Err(text) == [error |-> TRUE, text |-> text]
Info(text) == [error |-> FALSE, text |-> text]
Surfaced(msgs) == \E m \in msgs : m.error

Add(bag, t) == bag (+) SetToBag({t})
Remove(bag, t) == bag (-) SetToBag({t})

NoInfo == [none |-> TRUE]
Step(op, file, origin, msgs, threw, info) ==
  [op |-> op, file |-> file, origin |-> origin, msgs |-> msgs, threw |-> threw,
   info |-> info]

\* ------------------------------------------------------ updateStatusBarItem
\* Lines 260-267, for a defaultAuthId already resolved.
Paint(bar, id, envs) ==
  IF Falsy(id) THEN [bar EXCEPT !.shown = FALSE]
  ELSE IF IsProdThrows(id, envs) THEN [bar EXCEPT !.text = id]
  ELSE [text |-> id,
        color |-> IF isProd(id, envs) THEN "yellow" ELSE "white",
        shown |-> TRUE]

PaintThrows(id, envs) == ~Falsy(id) /\ IsProdThrows(id, envs)

RenderTask(pc, where, origin) == [pc |-> pc, where |-> where, origin |-> origin]

\* updateStatusBarItem from line 245 on, projectJsonFile known: paints from the
\* cache, or suspends on readFile.  The result is what the call leaves behind.
RenderFile(origin, f, cache, bar, envs) ==
  IF f = NoFile THEN
    [bar |-> Paint(bar, Undefined, envs), spawn |-> EmptyBag, threw |-> FALSE]
  ELSE IF cache[f] # Undefined THEN
    [bar |-> Paint(bar, cache[f], envs), spawn |-> EmptyBag,
     threw |-> PaintThrows(cache[f], envs)]
  ELSE
    [bar |-> bar, spawn |-> SetToBag({RenderTask("read", f, origin)}), threw |-> FALSE]

\* updateStatusBarItem(statusBarItem, jsonFile).  Without jsonFile the project
\* is the one of the active editor: findNearestProjectJsonFile answers from its
\* memo without any I/O, or suspends on findFiles.
updateStatusBarItem(origin, jsonFile, editor, memo, cache, bar, envs) ==
  IF jsonFile # NoFile THEN RenderFile(origin, jsonFile, cache, bar, envs)
  ELSE IF editor = NoEditor THEN RenderFile(origin, NoFile, cache, bar, envs)
  ELSE IF memo[editor] # NoFile THEN RenderFile(origin, memo[editor], cache, bar, envs)
  ELSE [bar |-> bar, spawn |-> SetToBag({RenderTask("locate", editor, origin)}),
        threw |-> FALSE]

\* findNearestProjectJsonFile after findFiles answered (lines 457-464).
Located(root) ==
  IF Cardinality(ProjectJsonIn(root)) = 1
  THEN CHOOSE f \in ProjectJsonIn(root) : TRUE ELSE NoFile

LocateMsgs(root) ==
  IF Cardinality(ProjectJsonIn(root)) > 1 THEN {Err("Expected at most one project.json file")} ELSE {}

\* A locator that memoizes nothing.
Memoize_Never(memo, root) == memo

Memoize(memo, root) ==
  IF Located(root) # NoFile THEN [memo EXCEPT ![root] = Located(root)] ELSE memo

\* ------------------------------------------------------- multiProject.ts
\* vscode.workspace.workspaceFolders[0].uri.fsPath and path.sep.
WorkspaceRoot == <<"/", "w">>
PathSep == <<"/">>
SrcDir == <<"s", "r", "c">>

\* editor.document.fileName of the editors the user may move to: files of two
\* SDF projects under src/, a file elsewhere in the workspace.
FileInP1 == WorkspaceRoot \o <<"/", "s", "r", "c", "/", "P", "1", "/", "f">>
FileInP2 == WorkspaceRoot \o <<"/", "s", "r", "c", "/", "P", "2", "/", "f">>
FileInLib == WorkspaceRoot \o <<"/", "l", "i", "b", "/", "f">>
EditorFiles == {FileInP1, FileInP2, FileInLib}
\* The editor argument is undefined: no editor is active.
NoActiveFile == <<>>

\* activeFile.replace(workspaceRoot, "").split(path.sep).
FilePathArray(activeFile) == Split(ReplaceFirst(activeFile, WorkspaceRoot), PathSep)

\* filePathArray?.[1] === "src" (indices of the source count from 0).
IsUnderSrc(activeFile) ==
  LET a == FilePathArray(activeFile) IN Len(a) >= 2 /\ a[2] = SrcDir

\* `src/${filePathArray[2]}`.
ProjectFolderOf(activeFile) ==
  LET a == FilePathArray(activeFile)
  IN SrcDir \o <<"/">> \o (IF Len(a) >= 3 THEN a[3] ELSE Undefined)

\* activeProject.json as JSON.parse sees it: folder is defaultProjectFolder,
\* rest stands for all its other fields.
ActiveProject(folder, rest) == [ok |-> TRUE, folder |-> folder, rest |-> rest]
InitActiveProject == ActiveProject(ProjectFolderOf(FileInP1), <<"v">>)
\* What another writer may leave in activeProject.json.
EditedActiveProject == ActiveProject(ProjectFolderOf(FileInP1), <<"w">>)
UnparseableProject == [ok |-> FALSE, folder |-> Undefined, rest |-> <<>>]

\* A call of handleChangeActiveTextEditor suspended at readFile or writeFile.
ProjectTask(pc, folder, content) == [pc |-> pc, folder |-> folder, content |-> content]

\* multiProject.activate has found activeProject.json, created its status bar
\* item, started the first render and registered its two handlers.
InitMultiProject ==
  [file |-> InitActiveProject,
   handlers |-> EmptyBag,
   renders |-> 1,
   bar |-> [text |-> <<>>, shown |-> FALSE],
   editor |-> NoActiveFile,
   latest |-> NoActiveFile,
   focusChanges |-> 0,
   edits |-> 0]

Init ==
  /\ multiProject = InitMultiProject
  /\ environments = <<>>
  /\ defaultAuthIdsByProjectJson = [f \in Files |-> Undefined]
  /\ projectJsonFilesByWorkspaceFolder = [r \in Roots \cup OtherRoots |-> NoFile]
  /\ statusBarItem = [text |-> Loading, color |-> "", shown |-> TRUE]
  /\ disk = InitDisk
  /\ activeTextEditor = "w1"
  /\ subscribed = FALSE
  /\ pendingChanges = [f \in Files |-> 0]
  /\ listTasks = SetToBag({[origin |-> "activate"]})
  /\ detailTasks = EmptyBag
  /\ renderTasks = EmptyBag
  /\ changedTasks = EmptyBag
  /\ selectTasks = EmptyBag
  /\ userChoice = [f \in Files |-> FALSE]
  /\ budget = [edits |-> 0, selects |-> 0, focus |-> 0]
  /\ last = Step("init", NoFile, "", {}, FALSE, NoInfo)

\* ------------------------------------------------ loadNetSuiteEnvironments
\* The body of loadNetSuiteEnvironments once exec has answered with out
\* (Failed: the promise rejected).  The loop over the old catalog reads
\* env.name of every slot, so an empty slot throws into the catch as well.
loadNetSuiteEnvironments(old, out) ==
  IF out = Failed \/ HasHole(old) THEN
    [ok |-> FALSE, envs |-> old, list |-> <<>>, queue |-> <<>>, hide |-> FALSE,
     msgs |-> {Err("Error retrieving NetSuite environments. Is SDF CLI installed?")}]
  ELSE
    LET envList == ParseEnvList(out)
    IN [ok |-> TRUE,
        envs |-> MergeEnvironments(old, envList),
        list |-> envList,
        queue |-> EnvsToGetDetails(old, envList),
        hide |-> Len(envList) = 0,
        msgs |-> (IF Len(envList) = 0 THEN {Err("No NetSuite environments found.")} ELSE {})
                 \cup {Info("Successfully retrieved NetSuite environment(s)")}]

\* environments = [] makes a new array: a picker that was handed the old one
\* keeps the old one, which nothing writes to any more.
Detach(t) == [t EXCEPT !.live = FALSE]
\* environments[i] = envInfo writes the array a picker may still hold.
Alias(t, envs) == IF t.live THEN [t EXCEPT !.arr = envs] ELSE t

LoadNetSuiteEnvironmentsDone(t, out) ==
  /\ BagIn(t, listTasks)
  /\ \E r \in {loadNetSuiteEnvironments(environments, out)} :
     \E bar1 \in {IF r.hide THEN [statusBarItem EXCEPT !.shown = FALSE] ELSE statusBarItem} :
     \* activate, lines 46-60, resumes after the first enumeration
     \E goesOn \in {t.origin = "activate" /\ r.envs # <<>>} :
     \E rend \in {IF goesOn
                 THEN updateStatusBarItem("activate", NoFile, activeTextEditor,
                        projectJsonFilesByWorkspaceFolder, defaultAuthIdsByProjectJson,
                        bar1, r.envs)
                 ELSE [bar |-> bar1, spawn |-> EmptyBag, threw |-> FALSE]} :
        /\ environments' = r.envs
        /\ listTasks' = Remove(listTasks, t)
        /\ detailTasks' = IF r.queue # <<>>
                          THEN Add(detailTasks, [queue |-> IndexedQueue(r.envs, r.queue)])
                          ELSE detailTasks
        /\ statusBarItem' = rend.bar
        /\ renderTasks' = renderTasks (+) rend.spawn
        /\ subscribed' = (subscribed \/ goesOn)
        /\ selectTasks' = IF r.ok THEN BagOfAll(Detach, selectTasks) ELSE selectTasks
        /\ last' = Step("listDone", NoFile, t.origin, r.msgs, rend.threw,
                        [failed |-> out = Failed, out |-> out, before |-> environments,
                         ok |-> r.ok, list |-> r.list, queue |-> r.queue])
  /\ UNCHANGED multiProject
  /\ UNCHANGED <<defaultAuthIdsByProjectJson, projectJsonFilesByWorkspaceFolder, disk,
                 activeTextEditor, pendingChanges, changedTasks, userChoice, budget>>

\* -------------------------------------------------- loadEnvironmentDetails
\* One turn of the loop of loadEnvironmentDetails: exec for the head of the
\* queue answered with out.  A rejection leaves the function (nothing catches
\* it); after the last name the indicator is rendered again.
LoadEnvironmentDetailsStep(t, out) ==
  /\ BagIn(t, detailTasks)
  /\ \E envs1 \in {IF out = Failed THEN environments
                   ELSE ArraySet(environments, Head(t.queue).idx,
                                 ParseEnvInfo(Head(t.queue).name, out))} :
     \E h \in {Head(t.queue)} :
     \E rest \in {Tail(t.queue)} :
     \E ends \in {out # Failed /\ rest = <<>>} :
     \E rend \in {IF ends
                 THEN updateStatusBarItem("backfill", NoFile, activeTextEditor,
                        projectJsonFilesByWorkspaceFolder, defaultAuthIdsByProjectJson,
                        statusBarItem, envs1)
                 ELSE [bar |-> statusBarItem, spawn |-> EmptyBag, threw |-> FALSE]} :
        /\ environments' = envs1
        /\ detailTasks' = IF out = Failed \/ rest = <<>> THEN Remove(detailTasks, t)
                          ELSE Add(Remove(detailTasks, t), [queue |-> rest])
        /\ statusBarItem' = rend.bar
        /\ renderTasks' = renderTasks (+) rend.spawn
        /\ selectTasks' = IF out = Failed THEN selectTasks
                          ELSE BagOfAll(LAMBDA s : Alias(s, envs1), selectTasks)
        /\ last' = Step("detailDone", NoFile, "backfill", {}, out = Failed \/ rend.threw,
                        [failed |-> out = Failed, name |-> h.name, idx |-> h.idx,
                         rest |-> rest, rendered |-> ends,
                         before |-> Names(environments)])
  /\ UNCHANGED multiProject
  /\ UNCHANGED <<defaultAuthIdsByProjectJson, projectJsonFilesByWorkspaceFolder, disk,
                 activeTextEditor, subscribed, pendingChanges, listTasks, changedTasks,
                 userChoice, budget>>

\* ----------------------------------------- updateStatusBarItem, resumed
\* findFiles answered the search findNearestProjectJsonFile started.
UpdateStatusBarItemLocated(t) ==
  /\ BagIn(t, renderTasks)
  /\ t.pc = "locate"
  /\ LET rend == RenderFile(t.origin, Located(t.where), defaultAuthIdsByProjectJson,
                            statusBarItem, environments)
     IN /\ projectJsonFilesByWorkspaceFolder' =
             Memoize(projectJsonFilesByWorkspaceFolder, t.where)
        /\ statusBarItem' = rend.bar
        /\ renderTasks' = Remove(renderTasks, t) (+) rend.spawn
        /\ last' = Step("renderLocated", Located(t.where), t.origin, LocateMsgs(t.where),
                        rend.threw, [root |-> t.where, msgs |-> LocateMsgs(t.where)])
  /\ UNCHANGED multiProject
  /\ UNCHANGED <<environments, defaultAuthIdsByProjectJson, disk, activeTextEditor,
                 subscribed, pendingChanges, listTasks, detailTasks, changedTasks,
                 selectTasks, userChoice, budget>>

\* What line 256 stores for the parsed file.
CacheValue(content) == content.auth

\* readFile answered (lines 250-267): parse, store in the cache, paint.
UpdateStatusBarItemRead(t) ==
  /\ BagIn(t, renderTasks)
  /\ t.pc = "read"
  /\ LET f == t.where
         c == disk[f]
         id == CacheValue(c)
     IN /\ renderTasks' = Remove(renderTasks, t)
        /\ defaultAuthIdsByProjectJson' =
             IF c.ok THEN [defaultAuthIdsByProjectJson EXCEPT ![f] = id]
             ELSE defaultAuthIdsByProjectJson
        /\ statusBarItem' = IF c.ok THEN Paint(statusBarItem, c.auth, environments)
                            ELSE statusBarItem
        /\ userChoice' = IF c.ok THEN [userChoice EXCEPT ![f] = FALSE] ELSE userChoice
        /\ last' = Step("renderRead", f, t.origin, {},
                        ~c.ok \/ PaintThrows(c.auth, environments),
                        [parsed |-> c.ok, auth |-> c.auth,
                         held |-> defaultAuthIdsByProjectJson[f],
                         choice |-> userChoice[f],
                         editor |-> activeTextEditor])
  /\ UNCHANGED multiProject
  /\ UNCHANGED <<environments, projectJsonFilesByWorkspaceFolder, disk, activeTextEditor,
                 subscribed, pendingChanges, listTasks, detailTasks, changedTasks,
                 selectTasks, budget>>

\* ------------------------------------------------------------ the handlers
ChangedTask(pc, f, env, origin, content) ==
  [pc |-> pc, file |-> f, env |-> env, origin |-> origin, content |-> content]

\* Every entry of the cache dropped.
Invalidate_All(cache, f) == [g \in Files |-> Undefined]

\* Line 56: delete defaultAuthIdsByProjectJson[projectJsonFile.path].
Invalidate(cache, f) == [cache EXCEPT ![f] = Undefined]

\* The onDidChange handler (lines 55-59) for a notification about f.
OnDidChange(f) ==
  /\ Calm
  /\ subscribed
  /\ pendingChanges[f] > 0
  /\ LET cache1 == Invalidate(defaultAuthIdsByProjectJson, f)
         rend == updateStatusBarItem("notify", f, activeTextEditor,
                   projectJsonFilesByWorkspaceFolder, cache1, statusBarItem, environments)
     IN /\ pendingChanges' = [pendingChanges EXCEPT ![f] = @ - 1]
        /\ defaultAuthIdsByProjectJson' = cache1
        /\ userChoice' = [userChoice EXCEPT ![f] = FALSE]
        /\ statusBarItem' = rend.bar
        /\ renderTasks' = renderTasks (+) rend.spawn
        /\ changedTasks' = Add(changedTasks, ChangedTask("read", f, NoEnv, "notify", Unparseable))
        /\ last' = Step("onDidChange", f, "notify", {}, rend.threw, NoInfo)
  /\ UNCHANGED multiProject
  /\ UNCHANGED <<environments, projectJsonFilesByWorkspaceFolder, disk, activeTextEditor,
                 subscribed, listTasks, detailTasks, selectTasks, budget>>

\* The active editor changes to one under root e, or to none.  The handler
\* (lines 64-68) runs once it is registered and renders when there is an editor.
OnDidChangeActiveTextEditor(e) ==
  /\ Calm
  /\ budget.focus < MaxFocus
  /\ e # activeTextEditor
  /\ LET rend == IF subscribed /\ e # NoEditor
                 THEN updateStatusBarItem("focus", NoFile, e,
                        projectJsonFilesByWorkspaceFolder, defaultAuthIdsByProjectJson,
                        statusBarItem, environments)
                 ELSE [bar |-> statusBarItem, spawn |-> EmptyBag, threw |-> FALSE]
     IN /\ activeTextEditor' = e
        /\ budget' = [budget EXCEPT !.focus = @ + 1]
        /\ statusBarItem' = rend.bar
        /\ renderTasks' = renderTasks (+) rend.spawn
        /\ last' = Step("onDidChangeActiveTextEditor", NoFile, "focus", {}, rend.threw, NoInfo)
  /\ UNCHANGED multiProject
  /\ UNCHANGED <<environments, defaultAuthIdsByProjectJson, projectJsonFilesByWorkspaceFolder,
                 disk, subscribed, pendingChanges, listTasks, detailTasks, changedTasks,
                 selectTasks, userChoice>>

\* Something other than the extension rewrites project.json f.  The watcher
\* reports it once it exists.
ExternalEdit(f, c) ==
  /\ Calm
  /\ budget.edits < MaxEdits
  /\ disk' = [disk EXCEPT ![f] = c]
  /\ budget' = [budget EXCEPT !.edits = @ + 1]
  /\ pendingChanges' = IF subscribed THEN [pendingChanges EXCEPT ![f] = @ + 1]
                       ELSE pendingChanges
  /\ last' = Step("externalEdit", f, "external", {}, FALSE, NoInfo)
  /\ UNCHANGED multiProject
  /\ UNCHANGED <<environments, defaultAuthIdsByProjectJson, projectJsonFilesByWorkspaceFolder,
                 statusBarItem, activeTextEditor, subscribed, listTasks, detailTasks,
                 renderTasks, changedTasks, selectTasks, userChoice>>

\* ------------------------------------------------- handleSelectEnvironment
SelectTask(pc, where, arr, live, slice, shown) ==
  [pc |-> pc, where |-> where, arr |-> arr, live |-> live, slice |-> slice,
   shown |-> shown]

\* handleSelectEnvironment(f, environments, ...) up to its first await: the
\* copy is taken and getSuiteCloudConfig searches for the config file.
HandleSelectEnvironment(f, envs) == SelectTask("config", f, envs, TRUE, envs, <<>>)

\* The command (lines 73-83) for the project of the active editor.
SelectResolved(f, envs) ==
  IF f = NoFile THEN [spawn |-> EmptyBag, msgs |-> {Err("No project.json file found in this project.")}]
  ELSE [spawn |-> SetToBag({HandleSelectEnvironment(f, envs)}), msgs |-> {}]

SelectEnvironmentCommand ==
  /\ Calm
  /\ subscribed
  /\ budget.selects < MaxSelects
  /\ LET known == IF activeTextEditor = NoEditor THEN NoFile
                  ELSE projectJsonFilesByWorkspaceFolder[activeTextEditor]
         searches == activeTextEditor # NoEditor /\ known = NoFile
         r == IF searches
              THEN [spawn |-> SetToBag({SelectTask("locate", activeTextEditor, <<>>, FALSE,
                                                   <<>>, <<>>)}),
                    msgs |-> {}]
              ELSE SelectResolved(known, environments)
     IN /\ selectTasks' = selectTasks (+) r.spawn
        /\ last' = Step("command", known, "select", r.msgs, FALSE, NoInfo)
  /\ budget' = [budget EXCEPT !.selects = @ + 1]
  /\ UNCHANGED multiProject
  /\ UNCHANGED <<environments, defaultAuthIdsByProjectJson, projectJsonFilesByWorkspaceFolder,
                 statusBarItem, disk, activeTextEditor, subscribed, pendingChanges,
                 listTasks, detailTasks, renderTasks, changedTasks, userChoice>>

\* findFiles answered the command's search for project.json.
SelectLocated(t) ==
  /\ BagIn(t, selectTasks)
  /\ t.pc = "locate"
  /\ LET r == SelectResolved(Located(t.where), environments)
     IN /\ selectTasks' = Remove(selectTasks, t) (+) r.spawn
        /\ last' = Step("selectLocated", Located(t.where), "select",
                        r.msgs \cup LocateMsgs(t.where), FALSE,
                        [root |-> t.where, msgs |-> LocateMsgs(t.where)])
  /\ projectJsonFilesByWorkspaceFolder' = Memoize(projectJsonFilesByWorkspaceFolder, t.where)
  /\ UNCHANGED multiProject
  /\ UNCHANGED <<environments, defaultAuthIdsByProjectJson, statusBarItem, disk,
                 activeTextEditor, subscribed, pendingChanges, listTasks, detailTasks,
                 renderTasks, changedTasks, userChoice, budget>>

\* The authIdFilter the flow works with, for what getSuiteCloudConfig and
\* require found.
FilterOf(cfg) == IF cfg \in {NoConfig, TwoConfigs} THEN Undefined ELSE cfg

FilterMsgs(slice, arr, pattern) ==
  LET filtered == IF Falsy(pattern) THEN slice ELSE FilterEnvironments(arr, pattern)
  IN IF Len(filtered) = 0 THEN {Err("No environments to select from.")} ELSE {}

\* getSuiteCloudConfig answered (lines 313-339): the list is built and the
\* picker opened.  new RegExp throws on an invalid pattern, into the catch.
GetSuiteCloudConfigDone(t, cfg) ==
  /\ BagIn(t, selectTasks)
  /\ t.pc = "config"
  /\ LET pattern == FilterOf(cfg)
         throws == cfg = InvalidRegex
         shown == PresentedList(t.slice, t.arr, pattern)
     IN /\ selectTasks' =
             IF throws THEN Remove(selectTasks, t)
             ELSE Add(Remove(selectTasks, t),
                      SelectTask("pick", t.where, t.arr, t.live, <<>>, shown))
        /\ last' = Step("picker", t.where, "select",
                        IF throws THEN {Err("Unexepcted error while processing account switch request.")}
                        ELSE (IF cfg = TwoConfigs THEN {Err("Expected at most one suitecloud.config.js file")} ELSE {})
                             \cup FilterMsgs(t.slice, t.arr, pattern),
                        FALSE,
                        [threw |-> throws, pattern |-> pattern, arr |-> t.arr,
                         slice |-> t.slice,
                         shown |-> IF throws THEN <<>> ELSE shown])
  /\ UNCHANGED multiProject
  /\ UNCHANGED <<environments, defaultAuthIdsByProjectJson, projectJsonFilesByWorkspaceFolder,
                 statusBarItem, disk, activeTextEditor, subscribed, pendingChanges,
                 listTasks, detailTasks, renderTasks, changedTasks, userChoice, budget>>

\* What the user may answer: nothing, or an entry of the list.
Choices(t) == {Undefined} \cup (Range(t.shown) \ {Hole.name})

\* Every answer but the synthetic entry taken for a pick, none included.
IsPick_AnyAnswer(env) == env # MSG_SHOW_ALL_ENVIRONMENTS

\* Lines 341-348: the answer is a name to switch to.
IsPick(env) == ~Falsy(env) /\ env # MSG_SHOW_ALL_ENVIRONMENTS

\* showQuickPick answered with env (lines 341-352).
ShowQuickPickDone(t, env) ==
  /\ BagIn(t, selectTasks)
  /\ t.pc = "pick"
  /\ env \in Choices(t)
  /\ LET f == t.where
         picks == IsPick(env)
         cache1 == IF picks THEN [defaultAuthIdsByProjectJson EXCEPT ![f] = env]
                   ELSE defaultAuthIdsByProjectJson
         again == IF env = MSG_SHOW_ALL_ENVIRONMENTS THEN Names(t.arr) ELSE <<>>
         rend == IF picks
                 THEN updateStatusBarItem("select", NoFile, activeTextEditor,
                        projectJsonFilesByWorkspaceFolder, cache1, statusBarItem,
                        environments)
                 ELSE [bar |-> statusBarItem, spawn |-> EmptyBag, threw |-> FALSE]
     IN /\ selectTasks' =
             IF env = MSG_SHOW_ALL_ENVIRONMENTS
             THEN Add(Remove(selectTasks, t),
                      SelectTask("pick", f, <<>>, FALSE, <<>>, again))
             ELSE Remove(selectTasks, t)
        /\ defaultAuthIdsByProjectJson' = cache1
        /\ userChoice' = IF picks THEN [userChoice EXCEPT ![f] = TRUE] ELSE userChoice
        /\ statusBarItem' = rend.bar
        /\ renderTasks' = renderTasks (+) rend.spawn
        /\ changedTasks' = IF picks
                           THEN Add(changedTasks, ChangedTask("read", f, env, "select", Unparseable))
                           ELSE changedTasks
        /\ last' = Step("picked", f, "select", {}, rend.threw,
                        [env |-> env, picks |-> picks, arr |-> t.arr, shown |-> again])
  /\ UNCHANGED multiProject
  /\ UNCHANGED <<environments, projectJsonFilesByWorkspaceFolder, disk, activeTextEditor,
                 subscribed, pendingChanges, listTasks, detailTasks, budget>>

\* ------------------------------------------------- onProjectJsonFileChanged
\* A refresh on every notification, the extension's own writes included.
MarkerAbsent_Always(json) == TRUE

\* Line 381: the file was not written by the extension.
MarkerAbsent(json) == ~json.marker

\* Line 378: fileContentsJSON.defaultAuthId = env.
SetDefaultAuthId(json, env) == [json EXCEPT !.auth = env]

\* A write that leaves the marker as it was read.
SetLastModified_Unchanged(json) == json

\* Line 389: fileContentsJSON.suiteCloudPlusPlusLastModified = new Date().
SetLastModified(json) == [json EXCEPT !.marker = TRUE]

\* A handler that saves whatever it was called for.
Saves_Always(env) == TRUE

\* Line 387: if (env), the file is saved only for an environment switch.
Saves(env) == ~Falsy(env)

\* readFile answered (lines 375-395).  A file that does not parse throws: into
\* the catch of handleSelectEnvironment, or nowhere for the watcher's call.
OnProjectJsonFileChangedRead(t) ==
  /\ BagIn(t, changedTasks)
  /\ t.pc = "read"
  /\ LET c == disk[t.file]
         json == IF ~Falsy(t.env) THEN SetDefaultAuthId(c, t.env) ELSE c
         refreshes == c.ok /\ MarkerAbsent(json)
         writes == c.ok /\ Saves(t.env)
     IN /\ listTasks' = IF refreshes THEN Add(listTasks, [origin |-> t.origin]) ELSE listTasks
        /\ changedTasks' =
             IF writes
             THEN Add(Remove(changedTasks, t),
                      ChangedTask("write", t.file, t.env, t.origin, SetLastModified(json)))
             ELSE Remove(changedTasks, t)
        /\ last' = Step("changedRead", t.file, t.origin,
                        IF ~c.ok /\ t.origin = "select"
                        THEN {Err("Unexepcted error while processing account switch request.")}
                        ELSE {},
                        ~c.ok /\ t.origin = "notify",
                        [read |-> c, env |-> t.env,
                         started |-> BagCardinality(listTasks') - BagCardinality(listTasks)])
  /\ UNCHANGED multiProject
  /\ UNCHANGED <<environments, defaultAuthIdsByProjectJson, projectJsonFilesByWorkspaceFolder,
                 statusBarItem, disk, activeTextEditor, subscribed, pendingChanges,
                 detailTasks, renderTasks, selectTasks, userChoice, budget>>

\* writeFile answered (lines 391-394), and handleSelectEnvironment reports the
\* switch (lines 354-357).  The watcher sees the write.
OnProjectJsonFileChangedWritten(t) ==
  /\ BagIn(t, changedTasks)
  /\ t.pc = "write"
  /\ disk' = [disk EXCEPT ![t.file] = t.content]
  /\ pendingChanges' = [pendingChanges EXCEPT ![t.file] = @ + 1]
  /\ changedTasks' = Remove(changedTasks, t)
  /\ last' = Step("written", t.file, t.origin,
                  {Info("The default account for the current project was successfully set")},
                  FALSE, [env |-> t.env, before |-> disk[t.file]])
  /\ UNCHANGED multiProject
  /\ UNCHANGED <<environments, defaultAuthIdsByProjectJson, projectJsonFilesByWorkspaceFolder,
                 statusBarItem, activeTextEditor, subscribed, listTasks, detailTasks,
                 renderTasks, selectTasks, userChoice, budget>>

\* ------------------------------------------- multiProject.ts, the handlers
\* The active editor changes to e (lines 100-120): nothing for no editor or a
\* file not under src/, otherwise the handler starts reading activeProject.json.
HandleChangeActiveTextEditor(e) ==
  /\ multiProject.focusChanges < MaxProjectFocus
  /\ e # multiProject.editor
  /\ LET acts == e # NoActiveFile /\ IsUnderSrc(e)
     IN /\ multiProject' =
             [multiProject EXCEPT
                !.editor = e,
                !.latest = IF acts THEN e ELSE @,
                !.focusChanges = @ + 1,
                !.handlers = IF acts
                             THEN Add(@, ProjectTask("read", ProjectFolderOf(e),
                                                     InitActiveProject))
                             ELSE @]
        /\ last' = Step("projectFocus", NoFile, "project", {}, FALSE,
                        [acts |-> acts, before |-> multiProject.file])
  /\ UNCHANGED <<environments, defaultAuthIdsByProjectJson, projectJsonFilesByWorkspaceFolder,
                 statusBarItem, disk, activeTextEditor, subscribed, pendingChanges,
                 listTasks, detailTasks, renderTasks, changedTasks, selectTasks,
                 userChoice, budget>>

\* readFile answered (lines 117-125): parse, set defaultProjectFolder, start
\* the write.  Text that does not parse throws, and nothing catches it.
HandleChangeActiveTextEditorRead(t) ==
  /\ BagIn(t, multiProject.handlers)
  /\ t.pc = "read"
  /\ LET c == multiProject.file
     IN /\ multiProject' =
             [multiProject EXCEPT
                !.handlers =
                  IF c.ok
                  THEN Add(Remove(@, t),
                           ProjectTask("write", t.folder, [c EXCEPT !.folder = t.folder]))
                  ELSE Remove(@, t)]
        /\ last' = Step("projectRead", NoFile, "project", {}, ~c.ok, [read |-> c])
  /\ UNCHANGED <<environments, defaultAuthIdsByProjectJson, projectJsonFilesByWorkspaceFolder,
                 statusBarItem, disk, activeTextEditor, subscribed, pendingChanges,
                 listTasks, detailTasks, renderTasks, changedTasks, selectTasks,
                 userChoice, budget>>

\* writeFile answered (lines 125-128).  The watcher sees the write and starts
\* a render (lines 21-27).
HandleChangeActiveTextEditorWritten(t) ==
  /\ BagIn(t, multiProject.handlers)
  /\ t.pc = "write"
  /\ multiProject' =
       [multiProject EXCEPT
          !.file = t.content,
          !.handlers = Remove(@, t),
          !.renders = @ + 1]
  /\ last' = Step("projectWritten", NoFile, "project", {}, FALSE,
                  [folder |-> t.folder, before |-> multiProject.file])
  /\ UNCHANGED <<environments, defaultAuthIdsByProjectJson, projectJsonFilesByWorkspaceFolder,
                 statusBarItem, disk, activeTextEditor, subscribed, pendingChanges,
                 listTasks, detailTasks, renderTasks, changedTasks, selectTasks,
                 userChoice, budget>>

\* updateStatusBarItem of multiProject.ts after its readFile (lines 75-91).
ProjectUpdateStatusBarItemRead ==
  /\ multiProject.renders > 0
  /\ LET c == multiProject.file
     IN /\ multiProject' =
             [multiProject EXCEPT
                !.renders = @ - 1,
                !.bar = IF ~c.ok THEN @
                        ELSE IF Falsy(c.folder) THEN [@ EXCEPT !.shown = FALSE]
                        ELSE [text |-> ReplaceFirst(c.folder, SrcDir \o <<"/">>),
                              shown |-> TRUE]]
        /\ last' = Step("projectRender", NoFile, "project", {Info("fileContents")},
                        ~c.ok, [read |-> c])
  /\ UNCHANGED <<environments, defaultAuthIdsByProjectJson, projectJsonFilesByWorkspaceFolder,
                 statusBarItem, disk, activeTextEditor, subscribed, pendingChanges,
                 listTasks, detailTasks, renderTasks, changedTasks, selectTasks,
                 userChoice, budget>>

\* Something other than the extension rewrites activeProject.json.
ProjectExternalEdit(c) ==
  /\ multiProject.edits < MaxEdits
  /\ multiProject' =
       [multiProject EXCEPT !.file = c, !.edits = @ + 1, !.renders = @ + 1]
  /\ last' = Step("projectEdit", NoFile, "external", {}, FALSE, NoInfo)
  /\ UNCHANGED <<environments, defaultAuthIdsByProjectJson, projectJsonFilesByWorkspaceFolder,
                 statusBarItem, disk, activeTextEditor, subscribed, pendingChanges,
                 listTasks, detailTasks, renderTasks, changedTasks, selectTasks,
                 userChoice, budget>>

\* ------------------------------------------------------- the specification
\* The steps that resume a task, for what the two commands may print.
Settle(lists, infos) ==
  \/ \E t \in BagToSet(listTasks) : \E out \in lists :
       LoadNetSuiteEnvironmentsDone(t, out)
  \/ \E t \in BagToSet(detailTasks) : \E out \in infos :
       LoadEnvironmentDetailsStep(t, out)
  \/ \E t \in BagToSet(renderTasks) : UpdateStatusBarItemLocated(t)
  \/ \E t \in BagToSet(renderTasks) : UpdateStatusBarItemRead(t)
  \/ \E t \in BagToSet(changedTasks) : OnProjectJsonFileChangedRead(t)

\* The watcher delivers a notification.
Notify == \E f \in Files : OnDidChange(f)

\* Another writer leaves one of contents in one of files.
Edit(files, contents) == \E f \in files : \E c \in contents : ExternalEdit(f, c)

\* The selection flow, for what the filter lookup may find.
Select(configs) ==
  \/ SelectEnvironmentCommand
  \/ \E t \in BagToSet(selectTasks) : SelectLocated(t)
  \/ \E t \in BagToSet(selectTasks) : \E cfg \in configs : GetSuiteCloudConfigDone(t, cfg)
  \/ \E t \in BagToSet(selectTasks) : \E env \in Choices(t) : ShowQuickPickDone(t, env)
  \/ \E t \in BagToSet(changedTasks) : OnProjectJsonFileChangedWritten(t)

\* The user moves to an editor under one of editors.
FocusOn(editors) == \E e \in editors : OnDidChangeActiveTextEditor(e)

Focus == \E e \in Roots \cup {NoEditor} : OnDidChangeActiveTextEditor(e)

\* The engine at work on two projects: every handler, one catalog of one name.
Next ==
  \/ Settle({<<"a">>}, {InfoProduction})
  \/ Notify
  \/ Edit(Files, {Content(Undefined, FALSE), OtherFieldsEdited(Content(<<"a">>, TRUE))})
  \/ Select({NoConfig})
  \/ Focus

Spec == Init /\ [][Next]_vars

\* The catalog: every answer of the two commands, failures included, with
\* refreshes set off by edits of one project.json.
NextCatalog ==
  \/ Settle(EnumOutputs \cup {Failed}, DetailOutputs \cup {Failed})
  \/ Notify
  \/ Edit({"F"}, {Content(<<"a">>, FALSE)})

SpecCatalog == Init /\ [][NextCatalog]_vars

\* The picker: every filter configuration over a catalog of two names.
NextPicker ==
  \/ Settle({ListAAb}, {InfoProduction})
  \/ Notify
  \/ Select(ConfigResults)

SpecPicker == Init /\ [][NextPicker]_vars

\* Faults: a project.json left unparseable by another writer, a filter that is
\* no regular expression.
NextFaults ==
  \/ Settle({<<"a">>}, {InfoProduction})
  \/ Notify
  \/ Edit({"F"}, {Unparseable})
  \/ Select({NoConfig, InvalidRegex})

SpecFaults == Init /\ [][NextFaults]_vars

\* The locator: editors under folders with no, one and two project.json.
NextLocator ==
  \/ Settle({<<"a">>}, {InfoProduction})
  \/ FocusOn(Roots \cup OtherRoots \cup {NoEditor})
  \/ Select({NoConfig})
  \/ Notify

SpecLocator == Init /\ [][NextLocator]_vars

\* Classification: a catalog with a name containing "prod", every kind of
\* detail, and a project whose active environment is that name.
NextClassify ==
  \/ Settle({ListProd}, {InfoProduction, InfoTstdrv, InfoNoType, InfoSandbox})
  \/ Notify
  \/ Edit({"F"}, {Content(<<"p", "r", "o", "d">>, FALSE)})

SpecClassify == Init /\ [][NextClassify]_vars

\* The engine's own steps and the answers it waits for: every command, read,
\* write, notification and picker that has been started comes back.
Completions ==
  \/ Settle({<<"a">>}, {InfoBare})
  \/ Notify
  \/ \E t \in BagToSet(selectTasks) : SelectLocated(t)
  \/ \E t \in BagToSet(selectTasks) : GetSuiteCloudConfigDone(t, NoConfig)
  \/ \E t \in BagToSet(selectTasks) : \E env \in Choices(t) : ShowQuickPickDone(t, env)
  \/ \E t \in BagToSet(changedTasks) : OnProjectJsonFileChangedWritten(t)

\* Selections and edits by other writers, finitely many, with every started
\* operation completing.
NextQuiescence ==
  \/ Settle({<<"a">>}, {InfoBare})
  \/ Notify
  \/ Edit({"F"}, {Content(<<"a">>, FALSE)})
  \/ Select({NoConfig})

SpecQuiescence == Init /\ [][NextQuiescence]_vars /\ WF_vars(Completions)

\* Multi-project: the user moves between editors while activeProject.json is
\* read, written and edited.
NextProject ==
  \/ \E e \in EditorFiles \cup {NoActiveFile} : HandleChangeActiveTextEditor(e)
  \/ \E t \in BagToSet(multiProject.handlers) : HandleChangeActiveTextEditorRead(t)
  \/ \E t \in BagToSet(multiProject.handlers) : HandleChangeActiveTextEditorWritten(t)
  \/ ProjectUpdateStatusBarItemRead
  \/ \E c \in {EditedActiveProject, UnparseableProject} : ProjectExternalEdit(c)

SpecProject == Init /\ [][NextProject]_vars

\* ================================================================== claims
\* The project.json that governs the focused editor, as the locator resolves it.
RelevantFile == IF activeTextEditor = NoEditor THEN NoFile ELSE Located(activeTextEditor)

\* The indicator shows the active environment of f: its cached value, or the
\* one on disk when none is cached; hidden when there is none.
ShowsEnvironmentOf(f) ==
  LET id == IF defaultAuthIdsByProjectJson[f] # Undefined
            THEN defaultAuthIdsByProjectJson[f] ELSE disk[f].auth
  IN IF Falsy(id) THEN ~statusBarItem.shown
     ELSE statusBarItem.shown /\ statusBarItem.text = id

\* Case-insensitive containment, character by character.
MatchesIgnoringCase(name, p) ==
  \E i \in 1..(Len(name) - Len(p) + 1) :
    \A k \in 1..Len(p) : ToLowerChar(name[i + k - 1]) = ToLowerChar(p[k])

\* The names of the records of arr that match p, in the order of arr.
RECURSIVE MatchingNames(_, _)
MatchingNames(arr, p) ==
  IF arr = <<>> THEN <<>>
  ELSE (IF Head(arr) # Hole /\ MatchesIgnoringCase(Head(arr).name, p)
        THEN <<Head(arr).name>> ELSE <<>>) \o MatchingNames(Tail(arr), p)

\* The step just taken built the picker's list under a filter pattern.
Filtered == last.op = "picker" /\ ~last.info.threw /\ ~Falsy(last.info.pattern)

\* C1: when a change notification for a state file is handled, a catalog
\* refresh is started if the content read has no write-marker and none is
\* started if it has one, however often the notification is repeated.
C1_RefreshIffMarkerAbsent ==
  (last.op = "changedRead" /\ last.origin = "notify" /\ last.info.read.ok)
    => last.info.started = (IF last.info.read.marker THEN 0 ELSE 1)

C1_Witness ==
  /\ last.op = "changedRead" /\ last.origin = "notify"
  /\ last.info.read.ok /\ last.info.read.marker
  /\ last.info.started = 0

\* C2: when the enumeration command fails, the error is surfaced and the
\* indicator is hidden, so it does not stay in the loading state.
C2_FailureHidesIndicator ==
  (last.op = "listDone" /\ last.info.failed)
    => (Surfaced(last.msgs) /\ ~statusBarItem.shown)

\* C3: a selection made while a refresh or backfill is in flight is persisted,
\* and the render that ends the backfill never changes a cache entry that
\* holds the user's choice.
C3_ChoiceSurvivesBackfill ==
  /\ (last.op = "written" /\ last.origin = "select")
       => disk[last.file].auth = last.info.env
  /\ (last.op = "renderRead" /\ last.origin = "backfill" /\ last.info.choice)
       => defaultAuthIdsByProjectJson[last.file] = last.info.held

\* C4: every backfill step leaves the sequence of names of the catalog as it
\* was and writes its record where that name already stood, also when another
\* refresh replaced the catalog meanwhile.
C4_BackfillKeepsNames ==
  (last.op = "detailDone" /\ ~last.info.failed)
    => /\ Names(environments) = last.info.before
       /\ last.info.idx <= Len(last.info.before)
       /\ last.info.before[last.info.idx] = last.info.name

\* C5: a failed detail query for one name does not end the backfill: the
\* names queued after it are still queried, and the render at the end happens.
C5_BackfillSurvivesFailure ==
  (last.op = "detailDone" /\ last.info.failed)
    => IF last.info.rest # <<>>
       THEN \E t \in BagToSet(detailTasks) : t.queue = last.info.rest
       ELSE last.info.rendered

\* C6: the render a change notification for file F sets off shows the active
\* environment of the project of the focused editor, also when that is not F.
C6_RenderShowsRelevantProject ==
  (/\ last.op = "renderRead" /\ last.origin = "notify" /\ last.info.parsed
   /\ RelevantFile # NoFile /\ RelevantFile # last.file)
    => ShowsEnvironmentOf(RelevantFile)

\* C7: a read through the cache populates the entry, also for a file without
\* defaultAuthId, so that the next render of that file reads nothing.
C7_ReadPopulatesCache ==
  (last.op = "renderRead" /\ last.info.parsed)
    => RenderFile("again", last.file, defaultAuthIdsByProjectJson, statusBarItem,
                  environments).spawn = EmptyBag

C10_FailureEmptiesCatalog ==
  (last.op = "listDone" /\ (last.info.failed \/ last.info.out = <<>>))
    => (environments = <<>> /\ Surfaced(last.msgs))

\* C11: in every reachable state every record of the catalog has a non-empty
\* name, whatever the enumeration command printed.
C11_NamesNonEmpty ==
  \A i \in 1..Len(environments) : environments[i].name # <<>>

\* The record the merge looks up for name n: the last one of old so named.
KnownAt(old, j, n) ==
  old[j].name = n /\ \A k \in (j + 1)..Len(old) : old[k].name # n

\* The first position of name n in the catalog, 0 when it is not there.
PositionOf(envs, n) ==
  IF \E i \in 1..Len(envs) : envs[i].name = n
  THEN CHOOSE i \in 1..Len(envs) :
         envs[i].name = n /\ \A k \in 1..(i - 1) : envs[k].name # n
  ELSE 0

\* The step just taken was a refresh that built a new catalog.
Refreshed == last.op = "listDone" /\ last.info.ok

\* What holds of every refresh: the catalog lists the names in the order the
\* command printed them, a name known before keeps its record, and the names
\* queued are exactly those unknown before or known without an account type.
RefreshMerges ==
  LET old == last.info.before
      list == last.info.list
  IN /\ Names(environments) = list
     /\ \A i \in 1..Len(list) : \A j \in 1..Len(old) :
          KnownAt(old, j, list[i]) => environments[i] = old[j]
     /\ last.info.queue =
          SelectSeq(list, LAMBDA n :
            \A j \in 1..Len(old) : KnownAt(old, j, n) => Falsy(old[j].type))

\* C12 as written: a refresh keeps the record of every name known with full
\* detail and does not queue it, such entries keep their relative order, and
\* the names queued are exactly the new and the detail-less ones.
C12_Original ==
  Refreshed =>
    /\ RefreshMerges
    /\ LET old == last.info.before
       IN \A i \in 1..Len(old) : \A j \in (i + 1)..Len(old) :
            (/\ ~Falsy(old[i].type) /\ ~Falsy(old[j].type)
             /\ PositionOf(environments, old[i].name) > 0
             /\ PositionOf(environments, old[j].name) > 0)
              => PositionOf(environments, old[i].name)
                   <= PositionOf(environments, old[j].name)

\* C12 as amended: the catalog follows the order of the enumeration, not the
\* order the names had before; records known with detail are kept and not
\* queued, and the names queued are exactly the new and the detail-less ones.
C12_MergeKeepsDetail == Refreshed => RefreshMerges

C12_Witness ==
  /\ Refreshed
  /\ last.info.queue # <<>>
  /\ \E j \in 1..Len(last.info.before) :
       /\ ~Falsy(last.info.before[j].type)
       /\ last.info.before[j].name \in Range(last.info.list)
       /\ last.info.before[j].name \notin Range(last.info.queue)

\* C13: every write of a project.json by the engine leaves content in which
\* the write-marker is present and defaultAuthId is the name the user picked.
C13_WritesCarryMarker ==
  last.op = "written"
    => /\ disk[last.file].ok
       /\ disk[last.file].marker
       /\ ~Falsy(last.info.env)
       /\ disk[last.file].auth = last.info.env

C13_Witness ==
  /\ last.op = "written"
  /\ ~last.info.before.marker
  /\ last.info.before.auth # last.info.env

\* What a read of f through the cache yields: the cached value, or the
\* defaultAuthId on disk when nothing is cached.
ReadThroughCache(f) ==
  IF defaultAuthIdsByProjectJson[f] # Undefined
  THEN defaultAuthIdsByProjectJson[f] ELSE disk[f].auth

\* C14: once a selection has written defaultAuthId = n to a file, a read of
\* it through the cache yields n, before the notification of the write is
\* handled and after, and the other fields of the file are as they were.
C14_RoundTrip ==
  /\ (last.op = "written" /\ last.origin = "select")
       => /\ ReadThroughCache(last.file) = last.info.env
          /\ disk[last.file].rest = last.info.before.rest
  /\ (last.op = "renderRead" /\ last.origin = "notify" /\ last.info.parsed)
       => ReadThroughCache(last.file) = disk[last.file].auth

\* C16: the catalog is refreshed only after a change made without the engine:
\* the engine's own selection-and-write flow never starts a refresh.
C16_SelectionStartsNoRefresh ==
  /\ (last.op = "changedRead" /\ last.origin = "select") => last.info.started = 0
  /\ \A t \in BagToSet(listTasks) : t.origin # "select"

\* C15: an error raised while a change notification or a selection command
\* is handled is caught by that handler and surfaced: no call made for a
\* notification or a selection ends with an uncaught error.
C15_HandlersCatchErrors ==
  /\ last.origin \in {"notify", "select"} => ~last.threw
  /\ (last.op = "changedRead" /\ ~last.info.read.ok) => Surfaced(last.msgs)
  /\ (last.op = "renderRead" /\ last.origin \in {"notify", "select"}
        /\ ~last.info.parsed) => Surfaced(last.msgs)

\* The names classified: in the catalog or not, with "prod" in either case.
ProbeNames ==
  {<<"p", "r", "o", "d">>, <<"a">>, <<"A", "b">>, <<"x", "P", "r", "O", "D">>}

HasTestDrivePrefix(acct) ==
  /\ acct # Undefined
  /\ Len(acct) >= 6
  /\ \A k \in 1..6 : ToLowerChar(acct[k]) = <<"t", "s", "t", "d", "r", "v">>[k]

\* C17: whatever the catalog, a name whose record has an account id with the
\* test-drive prefix is not production, whatever its type and name; a name
\* with no record, or a record without detail, that contains "prod" in any
\* case is production.
C17_Classification ==
  \A n \in ProbeNames :
    LET i == PositionOf(environments, n)
    IN /\ (i > 0 /\ HasTestDrivePrefix(environments[i].acct))
            => ~isProd(n, environments)
       /\ (/\ i = 0 \/ (Falsy(environments[i].type) /\ Falsy(environments[i].acct))
           /\ MatchesIgnoringCase(n, <<"p", "r", "o", "d">>))
            => isProd(n, environments)

\* The indicator painted for a test-drive account named "prod" of type
\* Production.
C17_Witness ==
  /\ \E i \in 1..Len(environments) :
       /\ environments[i].name = <<"p", "r", "o", "d">>
       /\ environments[i].type = Production
       /\ HasTestDrivePrefix(environments[i].acct)
  /\ statusBarItem.shown
  /\ statusBarItem.text = <<"p", "r", "o", "d">>
  /\ statusBarItem.color = "white"

\* C18: with two project.json files under two roots, handling a change
\* notification for one of them removes that file's cache entry and leaves
\* the entry of the other file as it was, in every step of the handling.
C18_NotificationTouchesOneEntry ==
  [][ /\ last'.origin = "notify"
        => \A g \in Files \ {last'.file} :
             defaultAuthIdsByProjectJson'[g] = defaultAuthIdsByProjectJson[g]
      /\ last'.op = "onDidChange"
        => defaultAuthIdsByProjectJson'[last'.file] = Undefined ]_vars

C18_Witness ==
  /\ last.op = "onDidChange"
  /\ defaultAuthIdsByProjectJson[last.file] = Undefined
  /\ \E g \in Files \ {last.file} : ~Falsy(defaultAuthIdsByProjectJson[g])

\* The step just taken ended a search of the locator.
Searched == last.op \in {"renderLocated", "selectLocated"}

\* A search in flight for root r, in either bag of tasks.
NoNewSearch(r) ==
  /\ \A t \in BagToSet(renderTasks') :
       (t.pc = "locate" /\ t.where = r)
         => CopiesIn(t, renderTasks') <= CopiesIn(t, renderTasks)
  /\ \A t \in BagToSet(selectTasks') :
       (t.pc = "locate" /\ t.where = r)
         => CopiesIn(t, selectTasks') <= CopiesIn(t, selectTasks)

\* C19: a search of the locator returns and memoizes the file when there is
\* exactly one match, returns absent without an error on no match and absent
\* with a surfaced error on more than one; a memoized entry is what a call
\* returns, never changes once set, and no search is started for its root.
C19_Locator ==
  /\ [](Searched =>
         LET r == last.info.root
             n == Cardinality(ProjectJsonIn(r))
         IN /\ n = 1 => /\ last.file \in ProjectJsonIn(r)
                        /\ projectJsonFilesByWorkspaceFolder[r] = last.file
                        /\ ~Surfaced(last.info.msgs)
            /\ n = 0 => /\ last.file = NoFile
                        /\ projectJsonFilesByWorkspaceFolder[r] = NoFile
                        /\ ~Surfaced(last.info.msgs)
            /\ n > 1 => /\ last.file = NoFile
                        /\ projectJsonFilesByWorkspaceFolder[r] = NoFile
                        /\ Surfaced(last.info.msgs))
  /\ [][\A r \in Roots \cup OtherRoots :
          projectJsonFilesByWorkspaceFolder[r] # NoFile
            => /\ projectJsonFilesByWorkspaceFolder'[r] = projectJsonFilesByWorkspaceFolder[r]
               /\ NoNewSearch(r)
               /\ (last'.op = "command" /\ activeTextEditor = r)
                    => last'.file = projectJsonFilesByWorkspaceFolder[r]]_vars

C19_Witness ==
  /\ Searched
  /\ Cardinality(ProjectJsonIn(last.info.root)) > 1
  /\ last.file = NoFile
  /\ Surfaced(last.info.msgs)

\* C20: when the user cancels the picker, the selection flow has changed
\* nothing: no step of it, from the command to the dismissed picker, changes
\* the state cache, the catalog or a project.json, or starts a write or a
\* refresh.
C20_CancelChangesNothing ==
  [][ (\/ last'.op \in {"command", "selectLocated", "picker"}
       \/ last'.op = "picked" /\ Falsy(last'.info.env))
        => /\ UNCHANGED <<defaultAuthIdsByProjectJson, environments, disk>>
           /\ UNCHANGED <<listTasks, changedTasks, pendingChanges>> ]_vars

C20_Witness ==
  /\ last.op = "picked"
  /\ last.info.env = Undefined
  /\ ~Falsy(defaultAuthIdsByProjectJson[last.file])
  /\ environments # <<>>

\* C22: for a name whose record has detail and an account id without the
\* test-drive prefix, the result is production exactly when the record's
\* account type is "Production", whatever the name contains.
C22_TypeDecidesOnceKnown ==
  \A n \in ProbeNames :
    LET i == PositionOf(environments, n)
    IN (/\ i > 0
        /\ ~Falsy(environments[i].type)
        /\ ~HasTestDrivePrefix(environments[i].acct))
         => (isProd(n, environments) <=> environments[i].type = Production)

\* The folder src/<P> of a file /w/src/<P>/..., read off its path.
FolderOfEditor(e) == SubSeq(e, Len(WorkspaceRoot) + 2, Len(WorkspaceRoot) + 7)

\* C21: once every handler of the editor changes has completed,
\* activeProject.json names the project of the editor focused last among
\* those under src/, each write keeps the other fields of the file, and a
\* change to an editor outside src/ leaves the file alone.
C21_ActiveProjectFollowsEditor ==
  /\ (/\ multiProject.handlers = EmptyBag
      /\ multiProject.latest # NoActiveFile
      /\ multiProject.edits = 0
      /\ last.origin = "project" /\ ~last.threw)
       => multiProject.file.folder = FolderOfEditor(multiProject.latest)
  /\ (last.op = "projectWritten" /\ multiProject.edits = 0)
       => multiProject.file.rest = last.info.before.rest
  /\ (last.op = "projectFocus" /\ ~last.info.acts)
       => multiProject.file = last.info.before

\* No handler has a command, read, write, render or picker outstanding and
\* no notification is waiting to be delivered.
Quiescent ==
  /\ InFlight = 0
  /\ subscribed => \A f \in Files : pendingChanges[f] = 0

\* C23: a step of a change notification never writes a state file, a write
\* is always for a selection of a real name, the notification that reads
\* what the engine wrote starts no refresh and no write, and after the
\* finitely many selections and edits the system becomes quiescent for good.
C23_NoFeedbackLoop ==
  /\ [][/\ last'.origin = "notify" => (disk' = disk /\ last'.op # "written")
        /\ last'.op = "written" =>
             (/\ last'.origin = "select"
              /\ ~Falsy(last'.info.env)
              /\ last'.info.env # MSG_SHOW_ALL_ENVIRONMENTS)]_vars
  /\ [](  (/\ last.op = "changedRead"
            /\ last.origin = "notify"
            /\ last.info.read.ok
            /\ last.info.read.marker)
         => (/\ last.info.started = 0
             /\ \A t \in BagToSet(changedTasks) : t.origin # "notify" \/ t.pc = "read"))
  /\ <>[]Quiescent

\* The engine saved a selection, the notification of that write was handled
\* without a refresh, and nothing is outstanding any more.
C23_Witness ==
  /\ last.op = "changedRead"
  /\ last.origin = "notify"
  /\ last.info.read.ok
  /\ last.info.read.marker
  /\ last.info.started = 0
  /\ budget.selects > 0
  /\ Quiescent

\* C24: when nothing is in flight and no notification is waiting, every
\* populated entry of the cache is the defaultAuthId its file holds on disk.
C24_CacheAgreesWithDisk ==
  Quiescent =>
    \A f \in Files :
      defaultAuthIdsByProjectJson[f] # Undefined
        => (disk[f].ok /\ defaultAuthIdsByProjectJson[f] = disk[f].auth)

\* C25: when the read of the state file fails while a selection is being
\* saved, then once the error has been reported the cache entry of that file
\* is unpopulated or is the defaultAuthId on disk, and the indicator does not
\* show the name that was not saved.
C25_FailedSelectionLeavesNoTrace ==
  (/\ last.op = "changedRead"
   /\ last.origin = "select"
   /\ ~last.info.read.ok
   /\ Surfaced(last.msgs))
    => /\ \/ defaultAuthIdsByProjectJson[last.file] = Undefined
          \/ /\ disk[last.file].ok
             /\ defaultAuthIdsByProjectJson[last.file] = disk[last.file].auth
       /\ ~(statusBarItem.shown /\ statusBarItem.text = last.info.env)
====
